---- MODULE Spec2Model ----
(***************************************************************************)
(* A model of the sourcify monitor: the SourceFetcher polling loop         *)
(* (src/src/monitor/source-fetcher.ts), the ChainMonitor block and         *)
(* bytecode loops (src/src/monitor/monitor.ts) and the Injector's          *)
(* verify-and-store step (exercised by src/test/injector.js).              *)
(*                                                                         *)
(* Time is discrete.  A Date kept by the program is represented by the     *)
(* time elapsed since it was taken, a setTimeout by the delay it still has *)
(* to wait; Tick lets one unit of time pass.  Subscriber callbacks are     *)
(* functions of the fetcher's callers: a callback returns normally, and    *)
(* may subscribe its own hash again while it runs.  Files are content      *)
(* addressed: every 200 response for a URL carries the same file.          *)
(***************************************************************************)
EXTENDS Integers, Sequences, FiniteSets, Bags, TLC

(***************************************************************************)
(* Bounds of the model.                                                    *)
(***************************************************************************)
\* how many callbacks are ever registered with subscribe
MaxCallbacks == 3
\* how many HTTP requests may be outstanding at once
MaxRequests == 2

(***************************************************************************)
(* Constants of source-fetcher.ts.  fetchPause and cleanupTime are the     *)
(* values configured through MONITOR_FETCH_PAUSE and                       *)
(* MONITOR_CLEANUP_PERIOD, counted in ticks of the clock.                  *)
(***************************************************************************)
STARTING_INDEX == 0
NO_PAUSE == 0
fetchPause == 2
cleanupTime == 2
OK == 200
Statuses == {200, 404}

\* the origins the registered gateways serve, in registration order
gateways == << {"ipfs"}, {"bzzr0", "bzzr1"} >>

\* the source addresses callers subscribe to
SourceAddresses == { [origin |-> "ipfs", id |-> "a"], [origin |-> "bzzr1", id |-> "b"] }

\* SourceAddress.getUniqueIdentifier: origin || ":" || id
getUniqueIdentifier(sourceAddress) == << sourceAddress.origin, sourceAddress.id >>

Hashes == { getUniqueIdentifier(sa) : sa \in SourceAddresses }

Callbacks == 1..MaxCallbacks

VARIABLES
    subscriptions,       \* this.subscriptions: hash -> reference to a Subscription object
    keys,                \* the insertion order of this.subscriptions (Object.keys)
    heap,                \* the Subscription objects that are still referenced
    timestamps,          \* this.timestamps: hash -> time elapsed since the Date was taken
    fileCounter,         \* this.fileCounter
    subscriptionCounter, \* this.subscriptionCounter
    timers,              \* pending setTimeout(this.fetch, delay, sourceHashes, index)
    requests,            \* outstanding nodeFetch requests (a bag)
    nextCb,              \* the next callback to be registered
    owner,               \* callback -> the hash it was subscribed for
    calls,               \* callback -> the files it was invoked with, in order
    dropped,             \* the callbacks of subscriptions removed by age cleanup
    handled,             \* the response body the last step handled, if it handled one
    sinceDispatch        \* time elapsed since the last HTTP GET (capped at fetchPause)

fetcherVars == << subscriptions, keys, heap, timestamps, fileCounter, subscriptionCounter,
                  timers, requests, nextCb, owner, calls, dropped, handled,
                  sinceDispatch >>

VARIABLES
    testing,             \* process.env.TESTING === "true"
    rawStartBlock,       \* parseInt(process.env.MONITOR_START_<chainId>): -1 stands for NaN
    stage,               \* the Monitor: "new", "started", or "failed" (start threw)
    chain,               \* the blocks the RPC node knows, block 0 first
    blockLoop,           \* the pending steps of the block loop: a getBlock request or a timer
    tasks,               \* the pending steps of processBytecode (a bag)
    assemblies,          \* the assemblies started and not completed (a bag)
    injected,            \* the arguments Injector.inject was called with
    answered             \* the RPC answer the last step handled, if it handled one

monitorVars == << testing, rawStartBlock, stage, chain, blockLoop, tasks, assemblies,
                  injected, answered >>

VARIABLES
    repository,          \* the repository: path -> the bytes stored there
    injectResult         \* what the last inject returned or threw

injectorVars == << repository, injectResult >>

VARIABLES
    variant              \* the SourceFetcher in use: "current" (source-fetcher.ts)
                         \* or "old" (unnamed/part_001)

vars == << fetcherVars, monitorVars, injectorVars, variant >>

NoResponse == [id |-> << >>, file |-> << >>, invoked |-> << >>]

Range(s) == { s[i] : i \in DOMAIN s }
Remove(s, x) == SelectSeq(s, LAMBDA y : y # x)
Without(f, k) == [x \in DOMAIN f \ {k} |-> f[x]]
Min(a, b) == IF a < b THEN a ELSE b

(***************************************************************************)
(* The part of the state that subscribe, cleanup and notifySubscribers     *)
(* read and write, as one record, so that a notification can run the       *)
(* callbacks (and the subscribe calls they make) one after the other.      *)
(***************************************************************************)
Store == [ subscriptions |-> subscriptions, keys |-> keys, heap |-> heap,
           timestamps |-> timestamps, fileCounter |-> fileCounter,
           subscriptionCounter |-> subscriptionCounter, nextCb |-> nextCb,
           owner |-> owner, calls |-> calls, dropped |-> dropped,
           handled |-> NoResponse ]

\* findGateway: the first gateway that works with the origin, 0 when none does
findGateway(sourceAddress) ==
    LET working == { i \in DOMAIN gateways : sourceAddress.origin \in gateways[i] }
    IN  IF working = {} THEN 0 ELSE CHOOSE i \in working : \A j \in working : i <= j

\* SimpleGateway.createUrl: the gateway's prefix followed by the id
createUrl(gateway, id) == << gateway, id >>

\* new Subscription(sourceAddress, fetchUrl)
Subscription(sourceAddress, fetchUrl) ==
    [ sourceAddress |-> sourceAddress, fetchUrl |-> fetchUrl,
      beingProcessed |-> FALSE, subscribers |-> << >> ]

\* a subscribe that takes the timestamp only when it creates the Subscription
subscribe_NoRefresh(S, sourceAddress) ==
    LET sourceHash == getUniqueIdentifier(sourceAddress)
        fetchUrl == createUrl(findGateway(sourceAddress), sourceAddress.id)
        callback == S.nextCb
        isNew == sourceHash \notin DOMAIN S.subscriptions
        ref == IF isNew THEN callback ELSE S.subscriptions[sourceHash]
        object == IF isNew THEN Subscription(sourceAddress, fetchUrl) ELSE S.heap[ref]
    IN  [ S EXCEPT
            !.subscriptions = IF isNew THEN (sourceHash :> ref) @@ @ ELSE @,
            !.keys = IF isNew THEN Append(@, sourceHash) ELSE @,
            !.fileCounter = IF isNew THEN @ + 1 ELSE @,
            !.timestamps = IF isNew THEN (sourceHash :> 0) @@ @ ELSE @,
            !.heap = (ref :> [object EXCEPT !.subscribers = Append(@, callback)]) @@ @,
            !.subscriptionCounter = @ + 1,
            !.nextCb = @ + 1,
            !.owner = (callback :> sourceAddress) @@ @ ]

\* subscribe(sourceAddress, callback): the callback registered is S.nextCb
subscribe(S, sourceAddress) ==
    LET sourceHash == getUniqueIdentifier(sourceAddress)
        fetchUrl == createUrl(findGateway(sourceAddress), sourceAddress.id)
        callback == S.nextCb
        isNew == sourceHash \notin DOMAIN S.subscriptions
        ref == IF isNew THEN callback ELSE S.subscriptions[sourceHash]
        object == IF isNew THEN Subscription(sourceAddress, fetchUrl) ELSE S.heap[ref]
    IN  [ S EXCEPT
            !.subscriptions = IF isNew THEN (sourceHash :> ref) @@ @ ELSE @,
            !.keys = IF isNew THEN Append(@, sourceHash) ELSE @,
            !.fileCounter = IF isNew THEN @ + 1 ELSE @,
            !.timestamps = (sourceHash :> 0) @@ @,
            !.heap = (ref :> [object EXCEPT !.subscribers = Append(@, callback)]) @@ @,
            !.subscriptionCounter = @ + 1,
            !.nextCb = @ + 1,
            !.owner = (callback :> sourceAddress) @@ @ ]

\* cleanup that forgets to delete the subscription
cleanup_KeepsSubscription(S, sourceHash) ==
    [ S EXCEPT !.timestamps = Without(@, sourceHash) ]

\* cleanup that counts one subscriber whatever the Subscription holds
cleanup_CountsOne(S, sourceHash) ==
    [ S EXCEPT
        !.timestamps = Without(@, sourceHash),
        !.subscriptions = Without(@, sourceHash),
        !.keys = Remove(@, sourceHash),
        !.fileCounter = @ - 1,
        !.subscriptionCounter = @ - 1 ]

\* cleanup(sourceHash)
cleanup(S, sourceHash) ==
    LET subscribers == DOMAIN S.heap[S.subscriptions[sourceHash]].subscribers
        subscriptionsDelta == Cardinality(subscribers)
    IN  [ S EXCEPT
            !.timestamps = Without(@, sourceHash),
            !.subscriptions = Without(@, sourceHash),
            !.keys = Remove(@, sourceHash),
            !.fileCounter = @ - 1,
            !.subscriptionCounter = @ - subscriptionsDelta ]

\* shouldCleanup with the comparison reversed
shouldCleanup_Reversed(S, sourceHash) ==
    /\ sourceHash \in DOMAIN S.timestamps
    /\ S.timestamps[sourceHash] < cleanupTime

\* shouldCleanup(sourceHash): timestamp && timestamp + cleanupTime < now
shouldCleanup(S, sourceHash) ==
    /\ sourceHash \in DOMAIN S.timestamps
    /\ S.timestamps[sourceHash] > cleanupTime

\* callback(file): the callback records the file; one of those in again subscribes
\* its hash again (while callbacks can still be registered)
invoke(S, callback, file, again) ==
    LET S1 == [ S EXCEPT !.calls[callback] = Append(@, file),
                         !.handled.invoked = Append(@, callback) ]
    IN  IF callback \in again /\ S1.nextCb <= MaxCallbacks
        THEN subscribe(S1, S.owner[callback])
        ELSE S1

\* a notification that walks the subscribers from the last to the first
RECURSIVE forEach_Backwards(_, _, _, _)
forEach_Backwards(S, subscribers, file, again) ==
    IF subscribers = << >> THEN S
    ELSE forEach_Backwards(invoke(S, subscribers[Len(subscribers)], file, again),
                           SubSeq(subscribers, 1, Len(subscribers) - 1), file, again)

\* a notification that calls the first subscriber only
forEach_FirstOnly(S, subscribers, file, again) ==
    IF subscribers = << >> THEN S
    ELSE invoke(S, Head(subscribers), file, again)

\* subscribers.forEach(callback => callback(file))
RECURSIVE forEach(_, _, _, _)
forEach(S, subscribers, file, again) ==
    IF subscribers = << >> THEN S
    ELSE forEach(invoke(S, Head(subscribers), file, again), Tail(subscribers), file, again)

\* a notification that runs the callbacks first and cleans up afterwards
notifySubscribers_CleanupLast(S, id, file, again) ==
    IF id \notin DOMAIN S.subscriptions THEN S
    ELSE LET subscription == S.heap[S.subscriptions[id]]
             S1 == forEach(S, subscription.subscribers, file, again)
         IN  cleanup(S1, id)

\* a notification that leaves the subscription in the map
notifySubscribers_KeepsSubscription(S, id, file, again) ==
    IF id \notin DOMAIN S.subscriptions THEN S
    ELSE forEach(S, S.heap[S.subscriptions[id]].subscribers, file, again)

\* notifySubscribers(id, file); again: the callbacks that subscribe again when run
notifySubscribers(S, id, file, again) ==
    IF id \notin DOMAIN S.subscriptions THEN S
    ELSE LET subscription == S.heap[S.subscriptions[id]]
             S1 == cleanup(S, id)
         IN  forEach(S1, subscription.subscribers, file, again)

\* the Subscription objects something still refers to: the map, and the closure
\* of a request whose finally handler has not run
Referenced(subs, reqs) ==
    { subs[h] : h \in DOMAIN subs } \cup
    { r.subscription : r \in { q \in BagToSet(reqs) : q.phase = "pending" } }

\* the next state of everything a Store holds, given the requests of the next state
Apply(S, reqs) ==
    /\ subscriptions' = S.subscriptions
    /\ keys' = S.keys
    /\ heap' = [ o \in Referenced(S.subscriptions, reqs) |-> S.heap[o] ]
    /\ timestamps' = S.timestamps
    /\ fileCounter' = S.fileCounter
    /\ subscriptionCounter' = S.subscriptionCounter
    /\ nextCb' = S.nextCb
    /\ owner' = S.owner
    /\ calls' = S.calls
    /\ dropped' = S.dropped
    /\ handled' = S.handled

\* a timer that drops its delay
setTimeout_NoDelay(delay, sourceHashes, index) ==
    [ delay |-> 0, sourceHashes |-> sourceHashes, index |-> index ]

\* setTimeout(this.fetch, delay, sourceHashes, index)
setTimeout(delay, sourceHashes, index) ==
    [ delay |-> delay, sourceHashes |-> sourceHashes, index |-> index ]

RemoveAt(s, i) == [ j \in 1..(Len(s) - 1) |-> IF j < i THEN s[j] ELSE s[j + 1] ]

\* a bag with one more, or one less, copy of r
Add(bag, r) == bag (+) SetToBag({r})
Take(bag, r) == bag (-) SetToBag({r})

(***************************************************************************)
(* The constructor: empty maps, and this.fetch([], 0) has run and has      *)
(* scheduled the first cycle.                                              *)
(***************************************************************************)
FetcherInit ==
    /\ subscriptions = << >>
    /\ keys = << >>
    /\ heap = << >>
    /\ timestamps = << >>
    /\ fileCounter = 0
    /\ subscriptionCounter = 0
    /\ timers = << setTimeout(NO_PAUSE, << >>, STARTING_INDEX) >>
    /\ requests = EmptyBag
    /\ nextCb = 1
    /\ owner = << >>
    /\ calls = [ c \in Callbacks |-> << >> ]
    /\ dropped = {}
    /\ handled = NoResponse
    /\ sinceDispatch = fetchPause

(***************************************************************************)
(* A caller subscribes.                                                    *)
(***************************************************************************)
Subscribe ==
    \E sourceAddress \in SourceAddresses :
        /\ nextCb <= MaxCallbacks
        /\ findGateway(sourceAddress) # 0
        /\ Apply(subscribe(Store, sourceAddress), requests)
        /\ UNCHANGED << timers, requests, sinceDispatch >>

(***************************************************************************)
(* A timer fires and fetch(sourceHashes, index) runs.                      *)
(***************************************************************************)
\* a new cycle that walks the list of the cycle before
FetchNewCycle_SameHashes ==
    \E i \in DOMAIN timers :
        LET t == timers[i] IN
        /\ t.delay = 0
        /\ t.index >= Len(t.sourceHashes)
        /\ timers' = Append(RemoveAt(timers, i),
                            setTimeout(NO_PAUSE, t.sourceHashes, STARTING_INDEX))
        /\ handled' = NoResponse
        /\ UNCHANGED << subscriptions, keys, heap, timestamps, fileCounter,
                        subscriptionCounter, requests, nextCb, owner, calls, dropped,
                        sinceDispatch >>

\* index >= sourceHashes.length: a new cycle over the current keys
FetchNewCycle ==
    \E i \in DOMAIN timers :
        LET t == timers[i] IN
        /\ t.delay = 0
        /\ t.index >= Len(t.sourceHashes)
        /\ timers' = Append(RemoveAt(timers, i), setTimeout(NO_PAUSE, keys, STARTING_INDEX))
        /\ handled' = NoResponse
        /\ UNCHANGED << subscriptions, keys, heap, timestamps, fileCounter,
                        subscriptionCounter, requests, nextCb, owner, calls, dropped,
                        sinceDispatch >>

\* the hash is not subscribed, or a request for it is being processed
FetchSkip ==
    \E i \in DOMAIN timers :
        LET t == timers[i]
            sourceHash == t.sourceHashes[t.index + 1]
        IN
        /\ t.delay = 0
        /\ t.index < Len(t.sourceHashes)
        /\ sourceHash \in DOMAIN subscriptions => heap[subscriptions[sourceHash]].beingProcessed
        /\ timers' = Append(RemoveAt(timers, i),
                            setTimeout(NO_PAUSE, t.sourceHashes, t.index + 1))
        /\ handled' = NoResponse
        /\ UNCHANGED << subscriptions, keys, heap, timestamps, fileCounter,
                        subscriptionCounter, requests, nextCb, owner, calls, dropped,
                        sinceDispatch >>

\* the subscription is too old: cleanup
FetchCleanup ==
    \E i \in DOMAIN timers :
        LET t == timers[i]
            sourceHash == t.sourceHashes[t.index + 1]
        IN
        /\ t.delay = 0
        /\ t.index < Len(t.sourceHashes)
        /\ sourceHash \in DOMAIN subscriptions
        /\ ~ heap[subscriptions[sourceHash]].beingProcessed
        /\ shouldCleanup(Store, sourceHash)
        /\ Apply([ cleanup(Store, sourceHash) EXCEPT
                     !.dropped = @ \cup Range(heap[subscriptions[sourceHash]].subscribers) ],
                 requests)
        /\ timers' = Append(RemoveAt(timers, i),
                            setTimeout(NO_PAUSE, t.sourceHashes, t.index + 1))
        /\ UNCHANGED << requests, sinceDispatch >>

\* otherwise: mark the subscription, send the request, pause
FetchDispatch ==
    \E i \in DOMAIN timers :
        LET t == timers[i]
            sourceHash == t.sourceHashes[t.index + 1]
        IN
        /\ t.delay = 0
        /\ t.index < Len(t.sourceHashes)
        /\ sourceHash \in DOMAIN subscriptions
        /\ ~ heap[subscriptions[sourceHash]].beingProcessed
        /\ ~ shouldCleanup(Store, sourceHash)
        /\ BagCardinality(requests) < MaxRequests
        /\ LET subscription == subscriptions[sourceHash]
               request == [ sourceHash |-> sourceHash, subscription |-> subscription,
                            fetchUrl |-> heap[subscription].fetchUrl,
                            phase |-> "pending", status |-> 0 ]
           IN  /\ requests' = Add(requests, request)
               /\ heap' = [ heap EXCEPT ![subscription].beingProcessed = TRUE ]
        /\ timers' = Append(RemoveAt(timers, i),
                            setTimeout(fetchPause, t.sourceHashes, t.index + 1))
        /\ sinceDispatch' = 0
        /\ handled' = NoResponse
        /\ UNCHANGED << subscriptions, keys, timestamps, fileCounter, subscriptionCounter,
                        nextCb, owner, calls, dropped >>

(***************************************************************************)
(* The promise chain of one request.                                       *)
(***************************************************************************)
\* nodeFetch resolves with the response: the then handler starts resp.text() and
\* returns, and the finally handler clears the flag of the captured Subscription
Response ==
    \E r \in BagToSet(requests), status \in Statuses :
        /\ r.phase = "pending"
        /\ requests' = Add(Take(requests, r),
                           [ r EXCEPT !.phase = "body", !.status = status, !.subscription = 0 ])
        /\ heap' = [ o \in Referenced(subscriptions, requests') |->
                       IF o = r.subscription THEN [ heap[o] EXCEPT !.beingProcessed = FALSE ]
                       ELSE heap[o] ]
        /\ handled' = NoResponse
        /\ UNCHANGED << subscriptions, keys, timestamps, fileCounter, subscriptionCounter,
                        timers, nextCb, owner, calls, dropped, sinceDispatch >>

\* a rejection whose finally handler is missing: the flag stays set
RequestFailed_KeepsFlag ==
    \E r \in BagToSet(requests) :
        /\ r.phase = "pending"
        /\ requests' = Take(requests, r)
        /\ heap' = [ o \in Referenced(subscriptions, requests') |-> heap[o] ]
        /\ handled' = NoResponse
        /\ UNCHANGED << subscriptions, keys, timestamps, fileCounter, subscriptionCounter,
                        timers, nextCb, owner, calls, dropped, sinceDispatch >>

\* nodeFetch rejects (transport error or timeout): catch logs, finally clears the flag
RequestFailed ==
    \E r \in BagToSet(requests) :
        /\ r.phase = "pending"
        /\ requests' = Take(requests, r)
        /\ heap' = [ o \in Referenced(subscriptions, requests') |->
                       IF o = r.subscription THEN [ heap[o] EXCEPT !.beingProcessed = FALSE ]
                       ELSE heap[o] ]
        /\ handled' = NoResponse
        /\ UNCHANGED << subscriptions, keys, timestamps, fileCounter, subscriptionCounter,
                        timers, nextCb, owner, calls, dropped, sinceDispatch >>

\* the callbacks the Subscription of a hash holds
Subscribers(sourceHash) ==
    IF sourceHash \in DOMAIN subscriptions
    THEN Range(heap[subscriptions[sourceHash]].subscribers)
    ELSE {}

\* the file a response carries: what the gateway serves at the URL, with the status
File(r) == [ url |-> r.fetchUrl, status |-> r.status ]

\* resp.text() resolves: notify on 200, log otherwise
BodyRead ==
    \E r \in BagToSet(requests) :
        /\ r.phase = "body"
        /\ requests' = Take(requests, r)
        /\ LET S == [ Store EXCEPT !.handled = [ id |-> r.sourceHash, file |-> File(r),
                                                  invoked |-> << >> ] ]
           IN  IF r.status = OK
               THEN \E again \in SUBSET Subscribers(r.sourceHash) :
                        Apply(notifySubscribers(S, r.sourceHash, File(r), again), requests')
               ELSE Apply(S, requests')
        /\ UNCHANGED << timers, sinceDispatch >>

\* resp.text() rejects (the body could not be read in time): nothing handles it
BodyFailed ==
    \E r \in BagToSet(requests) :
        /\ r.phase = "body"
        /\ requests' = Take(requests, r)
        /\ handled' = NoResponse
        /\ UNCHANGED << subscriptions, keys, heap, timestamps, fileCounter, subscriptionCounter,
                        timers, nextCb, owner, calls, dropped, sinceDispatch >>

(***************************************************************************)
(* One unit of time passes.                                                *)
(***************************************************************************)
Tick ==
    /\ timestamps' = [ h \in DOMAIN timestamps |-> Min(timestamps[h] + 1, cleanupTime + 1) ]
    /\ timers' = [ i \in DOMAIN timers |->
                     [ timers[i] EXCEPT !.delay = IF @ > 0 THEN @ - 1 ELSE 0 ] ]
    /\ sinceDispatch' = Min(sinceDispatch + 1, fetchPause)
    /\ handled' = NoResponse
    /\ UNCHANGED << subscriptions, keys, heap, fileCounter, subscriptionCounter,
                    requests, nextCb, owner, calls, dropped >>

(***************************************************************************)
(* The older SourceFetcher of unnamed/part_001.  Its Subscription holds    *)
(* the source address and the subscribers only; subscribe does not look    *)
(* for a gateway, fetch does.  fetch tests `index in this.subscriptions`,  *)
(* the property named by the decimal string of the index.                  *)
(***************************************************************************)
\* the gateways of the older variant, in registration order
gateways_old == << {"ipfs"}, {"bzzr0", "bzzr1"}, {"bzzr0", "bzzr1"} >>

\* the addresses callers subscribe to: one has an origin that no gateway serves
SourceAddresses_old == SourceAddresses \cup { [origin |-> "other", id |-> "c"] }
Hashes_old == { getUniqueIdentifier(sa) : sa \in SourceAddresses_old }

\* the property key a number names: its decimal string, which has no origin part
Digits == << "0", "1", "2", "3", "4", "5" >>
String(index) == << "", Digits[index + 1] >>

\* findGateway of the older variant: the first gateway that works, 0 when none does
findGateway_old(sourceAddress) ==
    LET working == { i \in DOMAIN gateways_old : sourceAddress.origin \in gateways_old[i] }
    IN  IF working = {} THEN 0 ELSE CHOOSE i \in working : \A j \in working : i <= j

\* a subscribe of the older variant that takes no timestamp
subscribe_old_NoTimestamp(S, sourceAddress) ==
    LET sourceHash == getUniqueIdentifier(sourceAddress)
        callback == S.nextCb
        isNew == sourceHash \notin DOMAIN S.subscriptions
        ref == IF isNew THEN callback ELSE S.subscriptions[sourceHash]
        object == IF isNew THEN [ sourceAddress |-> sourceAddress, subscribers |-> << >> ]
                  ELSE S.heap[ref]
    IN  [ S EXCEPT
            !.subscriptions = IF isNew THEN (sourceHash :> ref) @@ @ ELSE @,
            !.keys = IF isNew THEN Append(@, sourceHash) ELSE @,
            !.heap = (ref :> [object EXCEPT !.subscribers = Append(@, callback)]) @@ @,
            !.nextCb = @ + 1,
            !.owner = (callback :> sourceAddress) @@ @ ]

\* subscribe(sourceAddress, callback) of the older variant
subscribe_old(S, sourceAddress) ==
    LET sourceHash == getUniqueIdentifier(sourceAddress)
        callback == S.nextCb
        isNew == sourceHash \notin DOMAIN S.subscriptions
        ref == IF isNew THEN callback ELSE S.subscriptions[sourceHash]
        object == IF isNew THEN [ sourceAddress |-> sourceAddress, subscribers |-> << >> ]
                  ELSE S.heap[ref]
    IN  [ S EXCEPT
            !.subscriptions = IF isNew THEN (sourceHash :> ref) @@ @ ELSE @,
            !.keys = IF isNew THEN Append(@, sourceHash) ELSE @,
            !.timestamps = (sourceHash :> 0) @@ @,
            !.heap = (ref :> [object EXCEPT !.subscribers = Append(@, callback)]) @@ @,
            !.nextCb = @ + 1,
            !.owner = (callback :> sourceAddress) @@ @ ]

\* cleanup(sourceHash) of the older variant
cleanup_old(S, sourceHash) ==
    [ S EXCEPT
        !.timestamps = Without(@, sourceHash),
        !.subscriptions = Without(@, sourceHash),
        !.keys = Remove(@, sourceHash) ]

\* the constructor of the older variant: fetch([], 0) schedules the first cycle
\* after fetchPause
FetcherInit_old ==
    /\ subscriptions = << >>
    /\ keys = << >>
    /\ heap = << >>
    /\ timestamps = << >>
    /\ fileCounter = 0
    /\ subscriptionCounter = 0
    /\ timers = << setTimeout(fetchPause, << >>, STARTING_INDEX) >>
    /\ requests = EmptyBag
    /\ nextCb = 1
    /\ owner = << >>
    /\ calls = [ c \in Callbacks |-> << >> ]
    /\ dropped = {}
    /\ handled = NoResponse
    /\ sinceDispatch = fetchPause

\* a caller subscribes (older variant)
Subscribe_old ==
    \E sourceAddress \in SourceAddresses_old :
        /\ nextCb <= MaxCallbacks
        /\ Apply(subscribe_old(Store, sourceAddress), requests)
        /\ UNCHANGED << timers, requests, sinceDispatch >>

\* a timer fires and fetch(sourceHashes, index) of the older variant runs
fetch_old ==
    \E i \in DOMAIN timers :
        LET t == timers[i]
            rest == RemoveAt(timers, i)
            sourceHash == t.sourceHashes[t.index + 1]
            next == Append(rest, setTimeout(fetchPause, t.sourceHashes, t.index + 1))
        IN
        /\ t.delay = 0
        /\ IF t.index >= Len(t.sourceHashes)
           THEN \* a new cycle over the current keys, after fetchPause
                /\ timers' = Append(rest, setTimeout(fetchPause, keys, STARTING_INDEX))
                /\ handled' = NoResponse
                /\ UNCHANGED << subscriptions, keys, heap, timestamps, fileCounter,
                                subscriptionCounter, requests, nextCb, owner, calls,
                                dropped, sinceDispatch >>
           ELSE IF String(t.index) \notin DOMAIN subscriptions
           THEN \* if (!(index in this.subscriptions)) return;
                /\ timers' = rest
                /\ handled' = NoResponse
                /\ UNCHANGED << subscriptions, keys, heap, timestamps, fileCounter,
                                subscriptionCounter, requests, nextCb, owner, calls,
                                dropped, sinceDispatch >>
           ELSE IF shouldCleanup(Store, sourceHash)
           THEN /\ Apply([ cleanup_old(Store, sourceHash) EXCEPT
                             !.dropped = @ \cup Range(heap[subscriptions[sourceHash]].subscribers) ],
                         requests)
                /\ timers' = next
                /\ UNCHANGED << requests, sinceDispatch >>
           ELSE IF \/ sourceHash \notin DOMAIN subscriptions
                   \/ findGateway_old(heap[subscriptions[sourceHash]].sourceAddress) = 0
           THEN \* subscription.sourceAddress or findGateway throws: nothing is scheduled
                /\ timers' = rest
                /\ handled' = NoResponse
                /\ UNCHANGED << subscriptions, keys, heap, timestamps, fileCounter,
                                subscriptionCounter, requests, nextCb, owner, calls,
                                dropped, sinceDispatch >>
           ELSE LET sourceAddress == heap[subscriptions[sourceHash]].sourceAddress
                    fetchUrl == createUrl(findGateway_old(sourceAddress), sourceAddress.id)
                IN  /\ requests' = Add(requests,
                                       [ sourceHash |-> sourceHash, subscription |-> 0,
                                         fetchUrl |-> fetchUrl, phase |-> "pending",
                                         status |-> 0 ])
                    /\ timers' = next
                    /\ sinceDispatch' = 0
                    /\ handled' = NoResponse
                    /\ UNCHANGED << subscriptions, keys, heap, timestamps, fileCounter,
                                    subscriptionCounter, nextCb, owner, calls, dropped >>

\* subscribe of source-fetcher.ts for an address no gateway works with:
\* findGateway throws before subscribe has written anything
SubscribeRejected ==
    \E sourceAddress \in SourceAddresses_old :
        /\ findGateway(sourceAddress) = 0
        /\ handled' = NoResponse
        /\ UNCHANGED << subscriptions, keys, heap, timestamps, fileCounter,
                        subscriptionCounter, timers, requests, nextCb, owner, calls,
                        dropped, sinceDispatch >>

(***************************************************************************)
(* The ChainMonitor of monitor.ts, for one chain.                          *)
(***************************************************************************)
\* bounds: the blocks the chain can hold, and the processBytecode steps and
\* assemblies that can be pending at once
MaxBlocks == 2
MaxTasks == 2
\* the tries configured through INITIAL_GET_BYTECODE_TRIES
initialGetBytecodeTries == 2

\* the pauses configured through GET_CODE_RETRY_PAUSE and GET_BLOCK_PAUSE, in ticks
getCodeRetryPause == 2
getBlockPause == 2
chainId == "5"

\* a transaction: a call (to is set), a contract creation (to is empty), or a
\* creation whose address ethers.utils.getContractAddress cannot compute (it throws)
TxKinds == { "call", "create", "createBad" }
Blocks == { << >>, << "create" >>, << "call", "create" >>, << "create", "createBad" >> }

\* what eth_getCode can answer: no code yet, code with a metadata tail, code whose
\* tail cannot be decoded, code whose metadata origin no gateway serves
Bytecodes == { "0x", "0xcode", "0xbadcbor", "0xnogateway" }

NoAnswer == [ blockNumber |-> -1, result |-> "none" ]

\* createsContract(tx): !tx.to
createsContract(tx) == tx # "call"

\* ethers.utils.getContractAddress(tx): the address follows from sender and nonce,
\* here from the place of the transaction in the chain
getContractAddress(blockNumber, i) == << blockNumber, i >>

\* a variant of processBytecode that passes retriesLeft on without decrementing
processBytecode_NoDecrement(pending, address, retriesLeft, made) ==
    IF retriesLeft <= 0 THEN pending
    ELSE Add(pending, [ address |-> address, retriesLeft |-> retriesLeft,
                        phase |-> "getCode", calls |-> made + 1 ])

\* processBytecode(address, retriesLeft), up to the eth_getCode request;
\* made counts the requests made so far for this scheduling
processBytecode(pending, address, retriesLeft, made) ==
    IF retriesLeft <= 0 THEN pending
    ELSE Add(pending, [ address |-> address, retriesLeft |-> retriesLeft - 1,
                        phase |-> "getCode", calls |-> made + 1 ])

\* the for loop of processBlock's then handler from transaction i on: the steps
\* scheduled, and whether the loop threw
RECURSIVE forTransactions(_, _, _, _)
forTransactions(pending, block, blockNumber, i) ==
    IF i > Len(block) THEN [ tasks |-> pending, threw |-> FALSE ]
    ELSE IF ~ createsContract(block[i])
         THEN forTransactions(pending, block, blockNumber, i + 1)
         ELSE IF block[i] = "createBad"
              THEN [ tasks |-> pending, threw |-> TRUE ]
              ELSE forTransactions(
                       processBytecode(pending, getContractAddress(blockNumber, i),
                                       initialGetBytecodeTries, 0),
                       block, blockNumber, i + 1)

MonitorInit ==
    /\ testing \in BOOLEAN
    /\ rawStartBlock \in { -1, 0, 1 }
    /\ stage = "new"
    /\ chain \in { << b >> : b \in Blocks }
    /\ blockLoop = << >>
    /\ tasks = EmptyBag
    /\ assemblies = EmptyBag
    /\ injected = {}
    /\ answered = NoAnswer

\* a variant of MonitorStartTesting that starts the chain monitor all the same
MonitorStartTesting_Starts ==
    /\ stage = "new"
    /\ testing
    /\ stage' = "started"
    /\ blockLoop' = << [ kind |-> "getBlock", blockNumber |-> Len(chain) - 1 ] >>
    /\ answered' = NoAnswer
    /\ UNCHANGED << testing, rawStartBlock, chain, tasks, assemblies, injected >>

\* new Monitor(config) with TESTING set: start throws before any ChainMonitor exists
MonitorStartTesting ==
    /\ stage = "new"
    /\ testing
    /\ stage' = "failed"
    /\ answered' = NoAnswer
    /\ UNCHANGED << testing, rawStartBlock, chain, blockLoop, tasks, assemblies, injected >>

\* new Monitor(config): ChainMonitor.start reads the start block and calls processBlock;
\* parseInt(raw) || await getBlockNumber()
MonitorStart ==
    /\ stage = "new"
    /\ ~ testing
    /\ stage' = "started"
    /\ LET startBlock == IF rawStartBlock > 0 THEN rawStartBlock ELSE Len(chain) - 1
       IN  blockLoop' = << [ kind |-> "getBlock", blockNumber |-> startBlock ] >>
    /\ answered' = NoAnswer
    /\ UNCHANGED << testing, rawStartBlock, chain, tasks, assemblies, injected >>

\* the chain grows by one block
Mine ==
    \E b \in Blocks :
        /\ Len(chain) < MaxBlocks
        /\ chain' = Append(chain, b)
        /\ answered' = NoAnswer
        /\ UNCHANGED << testing, rawStartBlock, stage, blockLoop, tasks, assemblies, injected >>

\* a variant of finallyProcessBlock that increments the block number once more
finallyProcessBlock_Skips(loop, i, blockNumber) ==
    Append(RemoveAt(loop, i),
           [ kind |-> "timer", delay |-> getBlockPause, blockNumber |-> blockNumber + 1 ])

\* finally: setTimeout(this.processBlock, this.getBlockPause, blockNumber)
finallyProcessBlock(loop, i, blockNumber) ==
    Append(RemoveAt(loop, i),
           [ kind |-> "timer", delay |-> getBlockPause, blockNumber |-> blockNumber ])

\* getBlock(blockNumber, true) resolves with a block
BlockReturned ==
    \E i \in DOMAIN blockLoop :
        LET blockNumber == blockLoop[i].blockNumber
            block == chain[blockNumber + 1]
            loop == forTransactions(tasks, block, blockNumber, 1)
        IN
        /\ blockLoop[i].kind = "getBlock"
        /\ blockNumber < Len(chain)
        /\ BagCardinality(loop.tasks) + BagCardinality(assemblies) <= MaxTasks
        /\ tasks' = loop.tasks
        /\ blockLoop' = finallyProcessBlock(blockLoop, i,
                            IF loop.threw THEN blockNumber ELSE blockNumber + 1)
        /\ answered' = [ blockNumber |-> blockNumber, result |-> "block" ]
        /\ UNCHANGED << testing, rawStartBlock, stage, chain, assemblies, injected >>

\* a variant of BlockMissing that moves on to the next block
BlockMissing_Advances ==
    \E i \in DOMAIN blockLoop :
        LET blockNumber == blockLoop[i].blockNumber IN
        /\ blockLoop[i].kind = "getBlock"
        /\ blockNumber >= Len(chain)
        /\ blockLoop' = finallyProcessBlock(blockLoop, i, blockNumber + 1)
        /\ answered' = [ blockNumber |-> blockNumber, result |-> "null" ]
        /\ UNCHANGED << testing, rawStartBlock, stage, chain, tasks, assemblies, injected >>

\* getBlock resolves with no block: the node does not know the block yet
BlockMissing ==
    \E i \in DOMAIN blockLoop :
        LET blockNumber == blockLoop[i].blockNumber IN
        /\ blockLoop[i].kind = "getBlock"
        /\ blockNumber >= Len(chain)
        /\ blockLoop' = finallyProcessBlock(blockLoop, i, blockNumber)
        /\ answered' = [ blockNumber |-> blockNumber, result |-> "null" ]
        /\ UNCHANGED << testing, rawStartBlock, stage, chain, tasks, assemblies, injected >>

\* a variant of BlockFailed whose promise chain has no finally handler
BlockFailed_Halts ==
    \E i \in DOMAIN blockLoop :
        LET blockNumber == blockLoop[i].blockNumber IN
        /\ blockLoop[i].kind = "getBlock"
        /\ blockLoop' = RemoveAt(blockLoop, i)
        /\ answered' = [ blockNumber |-> blockNumber, result |-> "error" ]
        /\ UNCHANGED << testing, rawStartBlock, stage, chain, tasks, assemblies, injected >>

\* getBlock rejects: the catch handler logs
BlockFailed ==
    \E i \in DOMAIN blockLoop :
        LET blockNumber == blockLoop[i].blockNumber IN
        /\ blockLoop[i].kind = "getBlock"
        /\ blockLoop' = finallyProcessBlock(blockLoop, i, blockNumber)
        /\ answered' = [ blockNumber |-> blockNumber, result |-> "error" ]
        /\ UNCHANGED << testing, rawStartBlock, stage, chain, tasks, assemblies, injected >>

\* the timer fires: processBlock(blockNumber) requests the block
processBlock ==
    \E i \in DOMAIN blockLoop :
        /\ blockLoop[i].kind = "timer"
        /\ blockLoop' = Append(RemoveAt(blockLoop, i),
                               [ kind |-> "getBlock", blockNumber |-> blockLoop[i].blockNumber ])
        /\ answered' = NoAnswer
        /\ UNCHANGED << testing, rawStartBlock, stage, chain, tasks, assemblies, injected >>

\* a variant of CodeReturned whose catch of a decoding failure schedules a retry
CodeReturned_RetriesUndecodable ==
    \E t \in BagToSet(tasks), bytecode \in Bytecodes :
        /\ t.phase = "getCode"
        /\ IF bytecode # "0xcode"
           THEN /\ tasks' = Add(Take(tasks, t), [ t EXCEPT !.phase = "timer" ])
                /\ UNCHANGED assemblies
           ELSE /\ tasks' = Take(tasks, t)
                /\ assemblies' = Add(assemblies,
                                     [ address |-> t.address, bytecode |-> bytecode ])
        /\ answered' = [ blockNumber |-> -1, result |-> bytecode ]
        /\ UNCHANGED << testing, rawStartBlock, stage, chain, blockLoop, injected >>

\* eth_getCode resolves
CodeReturned ==
    \E t \in BagToSet(tasks), bytecode \in Bytecodes :
        /\ t.phase = "getCode"
        /\ IF bytecode = "0x"
           THEN \* setTimeout(this.processBytecode, this.getCodeRetryPause, address, retriesLeft)
                /\ tasks' = Add(Take(tasks, t), [ t EXCEPT !.phase = "timer" ])
                /\ UNCHANGED assemblies
           ELSE /\ tasks' = Take(tasks, t)
                /\ IF bytecode = "0xcode"
                   THEN assemblies' = Add(assemblies,
                                          [ address |-> t.address, bytecode |-> bytecode ])
                   ELSE \* cborDecode, fromCborData or assemble threw: logged
                        UNCHANGED assemblies
        /\ answered' = [ blockNumber |-> -1, result |-> bytecode ]
        /\ UNCHANGED << testing, rawStartBlock, stage, chain, blockLoop, injected >>

\* eth_getCode rejects: the catch handler logs and schedules the retry
CodeFailed ==
    \E t \in BagToSet(tasks) :
        /\ t.phase = "getCode"
        /\ tasks' = Add(Take(tasks, t), [ t EXCEPT !.phase = "timer" ])
        /\ answered' = NoAnswer
        /\ UNCHANGED << testing, rawStartBlock, stage, chain, blockLoop, assemblies, injected >>

\* the retry timer fires: processBytecode(address, retriesLeft)
RetryBytecode ==
    \E t \in BagToSet(tasks) :
        /\ t.phase = "timer"
        /\ tasks' = processBytecode(Take(tasks, t), t.address, t.retriesLeft, t.calls)
        /\ answered' = NoAnswer
        /\ UNCHANGED << testing, rawStartBlock, stage, chain, blockLoop, assemblies, injected >>

\* the assembler has the contract: the callback calls injector.inject
AssemblyComplete ==
    \E a \in BagToSet(assemblies) :
        /\ assemblies' = Take(assemblies, a)
        /\ injected' = injected \cup { [ bytecode |-> a.bytecode, chain |-> chainId,
                                         addresses |-> << a.address >> ] }
        /\ answered' = NoAnswer
        /\ UNCHANGED << testing, rawStartBlock, stage, chain, blockLoop, tasks >>

\* the assembler gives up (a source was never fetched): the callback never runs
AssemblyDropped ==
    \E a \in BagToSet(assemblies) :
        /\ assemblies' = Take(assemblies, a)
        /\ answered' = NoAnswer
        /\ UNCHANGED << testing, rawStartBlock, stage, chain, blockLoop, tasks, injected >>

(***************************************************************************)
(* The Injector's verify-and-store step, after the specification (its code *)
(* is src/injector, of which the repository holds the tests only).         *)
(* Bytecode is a sequence of bytes that ends with the CBOR section and its *)
(* length; the length is kept in one cell.                                 *)
(***************************************************************************)
\* the metadata documents callers inject: two compiler versions of Simple.sol
\* (same code, different metadata), and a second contract with swarm hashes
Metadatas == <<
    [ source |-> "contracts/Simple.sol", version |-> "0.6.0", origin |-> "ipfs" ],
    [ source |-> "contracts/Simple.sol", version |-> "0.6.1", origin |-> "ipfs" ],
    [ source |-> "contracts/SimpleWithImport.sol", version |-> "0.6.0", origin |-> "bzzr0" ],
    [ source |-> "contracts/SimpleWithImport.sol", version |-> "0.6.0", origin |-> "bzzr1" ] >>

\* the content hash of a metadata document (distinct documents, distinct hashes)
HashOf(metadata) == 10 + (CHOOSE i \in DOMAIN Metadatas : Metadatas[i] = metadata)

\* the code the compiler emits for a source, without the metadata section
CodeOf(source) == IF source = "contracts/Simple.sol" THEN << 1, 2 >> ELSE << 3 >>

OriginTag(origin) == CASE origin = "ipfs" -> 100 [] origin = "bzzr0" -> 101 [] OTHER -> 102

\* Compiler Driver: the runtime bytecode is the code, the CBOR section naming the
\* metadata hash, and the length of that section
recompile(metadata) ==
    CodeOf(metadata.source) \o << OriginTag(metadata.origin), HashOf(metadata) >> \o << 2 >>

\* the contracts on the local chain: the first three were compiled from the
\* metadata documents 1, 3 and 4; the last has a malformed tail
InjectAddresses == { "0xA1", "0xA2", "0xA3", "0xA4" }
Deployed(address) ==
    CASE address = "0xA1" -> recompile(Metadatas[1])
      [] address = "0xA2" -> recompile(Metadatas[3])
      [] address = "0xA3" -> recompile(Metadatas[4])
      [] OTHER -> << 1, 2, 7 >>

\* Matcher: strip removes the trailing CBOR section and its length
validTail(x) == Len(x) >= 1 /\ x[Len(x)] <= Len(x) - 1
strip(x) == SubSeq(x, 1, Len(x) - 1 - x[Len(x)])

\* a matcher that calls every pair of valid bytecodes a partial match
match_AnyPartial(onChain, recompiled) ==
    IF onChain = recompiled THEN "perfect"
    ELSE IF validTail(onChain) /\ validTail(recompiled) THEN "partial"
    ELSE "none"

\* Matcher: the strongest relation that holds
match(onChain, recompiled) ==
    IF onChain = recompiled THEN "perfect"
    ELSE IF validTail(onChain) /\ validTail(recompiled)
            /\ strip(onChain) = strip(recompiled) THEN "partial"
    ELSE "none"

\* Repository layout
perfectPath(metadata) ==
    IF metadata.origin = "ipfs" THEN << "ipfs", HashOf(metadata) >>
    ELSE << "swarm", metadata.origin, HashOf(metadata) >>
partialPath(chainName, address) == << "partial_matches", chainName, address, "metadata.json" >>

NoResult == [ match |-> "", path |-> << >>, error |-> << >> ]

InjectorInit ==
    /\ repository = << >>
    /\ injectResult = NoResult

InjectorIdle == InjectorInit

\* inject({repository, chain, addresses: [address], files}) with one metadata
\* document and its sources: recompile, match, store
inject ==
    \E i \in DOMAIN Metadatas, address \in InjectAddresses :
        LET metadata == Metadatas[i]
            result == match(Deployed(address), recompile(metadata))
            path == IF result = "perfect" THEN perfectPath(metadata)
                    ELSE partialPath("localhost", address)
        IN  IF result = "none"
            THEN /\ injectResult' = [ match |-> "none", path |-> << >>,
                                      error |-> << "Could not match on-chain deployed bytecode",
                                                   metadata.source >> ]
                 /\ UNCHANGED repository
            ELSE /\ repository' = (path :> metadata) @@ repository
                 /\ injectResult' = [ match |-> result, path |-> path, error |-> << >> ]

\* the monitor before it is constructed
MonitorIdle ==
    /\ testing = FALSE
    /\ rawStartBlock = -1
    /\ stage = "new"
    /\ chain = << << >> >>
    /\ blockLoop = << >>
    /\ tasks = EmptyBag
    /\ assemblies = EmptyBag
    /\ injected = {}
    /\ answered = NoAnswer

\* a fetcher nobody has constructed
FetcherIdle ==
    /\ subscriptions = << >>
    /\ keys = << >>
    /\ heap = << >>
    /\ timestamps = << >>
    /\ fileCounter = 0
    /\ subscriptionCounter = 0
    /\ timers = << >>
    /\ requests = EmptyBag
    /\ nextCb = 1
    /\ owner = << >>
    /\ calls = [ c \in Callbacks |-> << >> ]
    /\ dropped = {}
    /\ handled = NoResponse
    /\ sinceDispatch = fetchPause

(***************************************************************************)
(* The specifications: the fetcher alone, the chain monitor alone.         *)
(***************************************************************************)
Init == FetcherInit /\ MonitorIdle /\ InjectorIdle /\ variant = "current"
Next ==
    \/ Subscribe /\ UNCHANGED << monitorVars, injectorVars, variant >>
    \/ SubscribeRejected /\ UNCHANGED << monitorVars, injectorVars, variant >>
    \/ FetchNewCycle /\ UNCHANGED << monitorVars, injectorVars, variant >>
    \/ FetchSkip /\ UNCHANGED << monitorVars, injectorVars, variant >>
    \/ FetchCleanup /\ UNCHANGED << monitorVars, injectorVars, variant >>
    \/ FetchDispatch /\ UNCHANGED << monitorVars, injectorVars, variant >>
    \/ Response /\ UNCHANGED << monitorVars, injectorVars, variant >>
    \/ RequestFailed /\ UNCHANGED << monitorVars, injectorVars, variant >>
    \/ BodyRead /\ UNCHANGED << monitorVars, injectorVars, variant >>
    \/ BodyFailed /\ UNCHANGED << monitorVars, injectorVars, variant >>
    \/ Tick /\ UNCHANGED << monitorVars, injectorVars, variant >>
Spec == Init /\ [][Next]_vars

\* The fetcher with its scheduling: a timer that is due fires and fetch runs,
\* time passes, and every request finishes (answer, error or timeout after
\* fetchTimeout) and every body read ends.
FetchStep ==
    (FetchNewCycle \/ FetchSkip \/ FetchCleanup \/ FetchDispatch)
        /\ UNCHANGED << monitorVars, injectorVars, variant >>
Settle ==
    (Response \/ RequestFailed \/ BodyRead \/ BodyFailed)
        /\ UNCHANGED << monitorVars, injectorVars, variant >>
LiveSpec ==
    /\ Spec
    /\ WF_vars(FetchStep)
    /\ WF_vars(Settle)
    /\ WF_vars(Tick /\ UNCHANGED << monitorVars, injectorVars, variant >>)

MonitorSpecInit == MonitorInit /\ FetcherIdle /\ InjectorIdle /\ variant = "current"
MonitorSpecNext ==
    \/ MonitorStartTesting /\ UNCHANGED << fetcherVars, injectorVars, variant >>
    \/ MonitorStart /\ UNCHANGED << fetcherVars, injectorVars, variant >>
    \/ Mine /\ UNCHANGED << fetcherVars, injectorVars, variant >>
    \/ BlockReturned /\ UNCHANGED << fetcherVars, injectorVars, variant >>
    \/ BlockMissing /\ UNCHANGED << fetcherVars, injectorVars, variant >>
    \/ BlockFailed /\ UNCHANGED << fetcherVars, injectorVars, variant >>
    \/ processBlock /\ UNCHANGED << fetcherVars, injectorVars, variant >>
    \/ CodeReturned /\ UNCHANGED << fetcherVars, injectorVars, variant >>
    \/ CodeFailed /\ UNCHANGED << fetcherVars, injectorVars, variant >>
    \/ RetryBytecode /\ UNCHANGED << fetcherVars, injectorVars, variant >>
    \/ AssemblyComplete /\ UNCHANGED << fetcherVars, injectorVars, variant >>
    \/ AssemblyDropped /\ UNCHANGED << fetcherVars, injectorVars, variant >>
MonitorSpec == MonitorSpecInit /\ [][MonitorSpecNext]_vars

InjectorSpecInit == InjectorInit /\ FetcherIdle /\ MonitorIdle /\ variant = "current"
InjectorSpecNext == inject /\ UNCHANGED << fetcherVars, monitorVars, variant >>
InjectorSpec == InjectorSpecInit /\ [][InjectorSpecNext]_vars

\* the older fetcher alone.  No request is ever issued in it (fetch returns at the
\* test of the index before it reaches nodeFetch), so the handlers of the
\* response are no steps of it.
OldSpecInit == FetcherInit_old /\ MonitorIdle /\ InjectorIdle /\ variant = "old"
OldSpecNext ==
    \/ Subscribe_old /\ UNCHANGED << monitorVars, injectorVars, variant >>
    \/ fetch_old /\ UNCHANGED << monitorVars, injectorVars, variant >>
    \/ Tick /\ UNCHANGED << monitorVars, injectorVars, variant >>
OldSpec == OldSpecInit /\ [][OldSpecNext]_vars

\* either fetcher alone: the variant is chosen when the fetcher is constructed
\* and every step is a step of the variant chosen
BothSpecInit == Init \/ OldSpecInit
BothSpecNext ==
    \/ variant = "current" /\ Subscribe /\ UNCHANGED << monitorVars, injectorVars, variant >>
    \/ variant = "current" /\ SubscribeRejected /\ UNCHANGED << monitorVars, injectorVars, variant >>
    \/ variant = "current" /\ FetchNewCycle /\ UNCHANGED << monitorVars, injectorVars, variant >>
    \/ variant = "current" /\ FetchSkip /\ UNCHANGED << monitorVars, injectorVars, variant >>
    \/ variant = "current" /\ FetchCleanup /\ UNCHANGED << monitorVars, injectorVars, variant >>
    \/ variant = "current" /\ FetchDispatch /\ UNCHANGED << monitorVars, injectorVars, variant >>
    \/ variant = "current" /\ Response /\ UNCHANGED << monitorVars, injectorVars, variant >>
    \/ variant = "current" /\ RequestFailed /\ UNCHANGED << monitorVars, injectorVars, variant >>
    \/ variant = "current" /\ BodyRead /\ UNCHANGED << monitorVars, injectorVars, variant >>
    \/ variant = "current" /\ BodyFailed /\ UNCHANGED << monitorVars, injectorVars, variant >>
    \/ variant = "old" /\ Subscribe_old /\ UNCHANGED << monitorVars, injectorVars, variant >>
    \/ variant = "old" /\ fetch_old /\ UNCHANGED << monitorVars, injectorVars, variant >>
    \/ Tick /\ UNCHANGED << monitorVars, injectorVars, variant >>
BothSpec == BothSpecInit /\ [][BothSpecNext]_vars

(***************************************************************************)
(* Properties of the SourceFetcher.                                        *)
(***************************************************************************)
\* the URL requested for a source address
UrlOf(sourceAddress) == createUrl(findGateway(sourceAddress), sourceAddress.id)

\* how many requests are outstanding for a hash, from dispatch until the body is handled
Outstanding(sourceHash) ==
    BagCardinality([ r \in { q \in BagToSet(requests) : q.sourceHash = sourceHash } |-> requests[r] ])

\* the last step sent an HTTP GET
Dispatched == BagCardinality(requests') > BagCardinality(requests)

\* the last step was fetch visiting the hash at its index
Visited(sourceHash) ==
    /\ timers # << >> /\ timers' # << >>
    /\ timers[1].delay = 0
    /\ timers[1].index < Len(timers[1].sourceHashes)
    /\ timers[1].sourceHashes[timers[1].index + 1] = sourceHash
    /\ timers'[Len(timers')].index = timers[1].index + 1

\* a Subscription whose timestamp is older than cleanupTime
Expired(sourceHash) ==
    /\ sourceHash \in DOMAIN subscriptions
    /\ timestamps[sourceHash] > cleanupTime

\* C1: every callback registered with subscribe is invoked at most once, only with
\* the body of a 200 response to a request for its own hash, and only by the step
\* that handles such a body (never by a non-200 response, a transport error, a
\* timeout or an age cleanup).
C1_InvokedAtMostOnceOn200 ==
    /\ [](\A cb \in Callbacks :
            /\ Len(calls[cb]) <= 1
            /\ \A k \in DOMAIN calls[cb] :
                 /\ cb \in DOMAIN owner
                 /\ calls[cb][k].status = OK
                 /\ calls[cb][k].url = UrlOf(owner[cb]))
    /\ [][\A cb \in Callbacks :
            calls'[cb] # calls[cb] =>
              \E r \in BagToSet(requests) :
                 /\ r.phase = "body" /\ r.status = OK
                 /\ r.sourceHash = getUniqueIdentifier(owner[cb])
                 /\ CopiesIn(r, requests') < CopiesIn(r, requests)]_vars

\* C1 witness: one callback was invoked with its file, another was dropped by age
\* cleanup, and a non-200 body has just been handled
C1_Witness ==
    /\ \E cb \in Callbacks : Len(calls[cb]) = 1
    /\ dropped # {}
    /\ handled # NoResponse /\ handled.file.status # OK

C3_AtMostOneOutstanding ==
    \A sourceHash \in DOMAIN subscriptions : Outstanding(sourceHash) <= 1

\* C4: at least fetchPause elapses between two HTTP GETs: there is always exactly
\* one pending loop step, after a dispatch it waits fetchPause, and a step that
\* dispatched nothing schedules a zero-delay step.
C4_DispatchRate ==
    /\ [](Len(timers) = 1)
    /\ [][ Dispatched => /\ sinceDispatch >= fetchPause
                         /\ timers'[1].delay = fetchPause ]_vars
    /\ [][ (timers' # timers /\ timers[1].delay = 0 /\ ~ Dispatched)
              => timers'[1].delay = NO_PAUSE ]_vars

\* C4 witness: a second GET has been sent while the first is still outstanding
C4_Witness ==
    /\ BagCardinality(requests) = 2
    /\ sinceDispatch = 0

\* C5: a callback of a subscription removed by age cleanup is never invoked
C5_DroppedNeverInvoked ==
    \A cb \in dropped : calls[cb] = << >>

\* C5 witness: a subscription was dropped, its hash was subscribed again, and the
\* new callback has been invoked
C5_Witness ==
    \E old \in dropped, new \in Callbacks :
        /\ new \in DOMAIN owner /\ owner[new] = owner[old]
        /\ new > old
        /\ Len(calls[new]) = 1

\* C6 (as claimed): a Subscription that is too old when the loop visits its hash is
\* removed by that visit, whether a request for it is in flight or not
C6_ExpiredRemovedAtVisit ==
    [][ \A sourceHash \in Hashes :
          (Expired(sourceHash) /\ Visited(sourceHash)) =>
              sourceHash \notin DOMAIN subscriptions' ]_vars

\* C6 (amended): a Subscription that is too old when the loop visits its hash, with
\* no request being processed for it, is removed by that visit and none of its
\* callbacks is ever invoked; one whose request is being processed is kept.
C6_ExpiredIdleRemovedAtVisit ==
    /\ [][ \A sourceHash \in Hashes :
             (Expired(sourceHash) /\ Visited(sourceHash)) =>
                 IF heap[subscriptions[sourceHash]].beingProcessed
                 THEN /\ sourceHash \in DOMAIN subscriptions'
                      /\ subscriptions'[sourceHash] = subscriptions[sourceHash]
                 ELSE /\ sourceHash \notin DOMAIN subscriptions'
                      /\ sourceHash \notin DOMAIN timestamps'
                      /\ Subscribers(sourceHash) \subseteq dropped'
                      /\ \A cb \in Subscribers(sourceHash) : calls'[cb] = << >> ]_vars
    /\ [](\A cb \in dropped : calls[cb] = << >>)

\* C6 witness: an expired subscription with two callbacks has been removed
C6_Witness ==
    /\ Cardinality(dropped) >= 2
    /\ \E a \in dropped, b \in dropped : a # b /\ owner[a] = owner[b]
    /\ subscriptions = << >>

(***************************************************************************)
(* Properties of the Injector.                                             *)
(***************************************************************************)
\* C7: the match result decides where the metadata goes: a perfect match stores
\* the caller's metadata unchanged under the content-addressed path of its hash, a
\* partial match stores it at partial_matches/<chain>/<address>/metadata.json, and
\* no match stores nothing and fails naming the mismatch and the source.
C7_MatchDecidesPath ==
    /\ [][ injectResult'.match = "perfect" =>
             /\ \E i \in DOMAIN Metadatas :
                   /\ injectResult'.path \in
                         { << "ipfs", HashOf(Metadatas[i]) >>,
                           << "swarm", "bzzr0", HashOf(Metadatas[i]) >>,
                           << "swarm", "bzzr1", HashOf(Metadatas[i]) >> }
                   /\ injectResult'.path[Len(injectResult'.path) - 1]
                         = IF Metadatas[i].origin = "ipfs" THEN "ipfs" ELSE Metadatas[i].origin
                   /\ repository'[injectResult'.path] = Metadatas[i]
                   /\ \E address \in InjectAddresses :
                         Deployed(address) = recompile(Metadatas[i])
             /\ \A p \in DOMAIN repository : repository'[p] = repository[p] ]_vars
    /\ [][ injectResult'.match = "partial" =>
             /\ \E address \in InjectAddresses, i \in DOMAIN Metadatas :
                   /\ injectResult'.path =
                         << "partial_matches", "localhost", address, "metadata.json" >>
                   /\ repository'[injectResult'.path] = Metadatas[i]
                   /\ Deployed(address) # recompile(Metadatas[i])
                   \* the deployed bytecode is the metadata's code followed by
                   \* a CBOR section of the same length, with other contents
                   /\ Len(Deployed(address)) = Len(recompile(Metadatas[i]))
                   /\ CodeOf(Metadatas[i].source) \o << 2 >> =
                         SubSeq(Deployed(address), 1, Len(CodeOf(Metadatas[i].source)))
                            \o << Deployed(address)[Len(Deployed(address))] >>
             /\ \A p \in DOMAIN repository \ { injectResult'.path } :
                   repository'[p] = repository[p] ]_vars
    /\ [][ injectResult'.match = "none" =>
             /\ repository' = repository
             /\ injectResult'.path = << >>
             /\ injectResult'.error[1] = "Could not match on-chain deployed bytecode"
             /\ \E i \in DOMAIN Metadatas : injectResult'.error[2] = Metadatas[i].source ]_vars
    /\ [][ repository' # repository => injectResult'.match \in { "perfect", "partial" } ]_vars

\* C7 witness: perfect matches are stored under ipfs and swarm paths, a partial
\* match under partial_matches, and the last inject failed to match
C7_Witness ==
    /\ \E p \in DOMAIN repository : p[1] = "ipfs"
    /\ \E p \in DOMAIN repository : p[1] = "swarm"
    /\ \E p \in DOMAIN repository : p[1] = "partial_matches"
    /\ injectResult.match = "none"

(***************************************************************************)
(* Properties of the ChainMonitor.                                         *)
(***************************************************************************)
\* C8: for each scheduling, eth_getCode is called at most initialGetBytecodeTries
\* times; every request made consumes one try; an empty answer or an error
\* schedules the retry; a retry without tries left requests, assembles and
\* injects nothing.
C8_BoundedTries ==
    /\ [](\A t \in BagToSet(tasks) :
            /\ t.calls <= initialGetBytecodeTries
            /\ t.retriesLeft >= 0
            /\ t.calls + t.retriesLeft = initialGetBytecodeTries)
    /\ [][ \A t \in BagToSet(tasks) :
             (t.phase = "timer" /\ CopiesIn(t, tasks') < CopiesIn(t, tasks)) =>
                 /\ assemblies' = assemblies
                 /\ injected' = injected
                 /\ IF t.retriesLeft <= 0
                    THEN BagCardinality(tasks') = BagCardinality(tasks) - 1
                    ELSE tasks' = Add(Take(tasks, t),
                                      [ t EXCEPT !.phase = "getCode",
                                                 !.retriesLeft = @ - 1,
                                                 !.calls = @ + 1 ]) ]_vars
    /\ [][ \A t \in BagToSet(tasks) :
             (t.phase = "getCode" /\ CopiesIn(t, tasks') < CopiesIn(t, tasks)) =>
                 \/ tasks' = Add(Take(tasks, t), [ t EXCEPT !.phase = "timer" ])
                 \/ tasks' = Take(tasks, t) ]_vars

\* C8 witness: a scheduling has used all its tries and its last retry is pending
C8_Witness ==
    \E t \in BagToSet(tasks) :
        /\ t.phase = "timer"
        /\ t.retriesLeft = 0
        /\ t.calls = initialGetBytecodeTries

\* C9 (as claimed): once the RPC has returned block N, the next block asked for is N+1
C9_AdvancesAfterBlock ==
    [][ answered'.result = "block" =>
          \E i \in DOMAIN blockLoop' :
              /\ blockLoop'[i].kind = "timer"
              /\ blockLoop'[i].blockNumber = answered'.blockNumber + 1 ]_vars

\* C10: when the request for block N returns no block or fails, nothing is
\* scheduled, the same N is asked for again after getBlockPause, and the number
\* asked for changes only when a block was returned.
C10_PollsSameBlock ==
    /\ [][ answered'.result \in { "null", "error" } =>
             /\ tasks' = tasks
             /\ assemblies' = assemblies
             /\ blockLoop' = << [ kind |-> "timer", delay |-> getBlockPause,
                                  blockNumber |-> answered'.blockNumber ] >> ]_vars
    /\ [][ (blockLoop # << >> /\ blockLoop[1].kind = "timer" /\ blockLoop' # blockLoop) =>
             blockLoop' = << [ kind |-> "getBlock",
                               blockNumber |-> blockLoop[1].blockNumber ] >> ]_vars
    /\ [][ (blockLoop # << >> /\ blockLoop' # << >>
              /\ blockLoop'[1].blockNumber # blockLoop[1].blockNumber) =>
             answered'.result = "block" ]_vars

\* C10 witness: the node did not know the block while bytecode steps were pending
C10_Witness ==
    /\ answered.result = "null"
    /\ tasks # EmptyBag
    /\ answered.blockNumber >= 1

\* C11: the block numbers requested start at the start block, never decrease and
\* never skip: there is one block loop, its first request is for the start block
\* that start computed, each later request is for the previous number N or for
\* N+1, and N+1 follows only a request for N that returned a block.
C11_NoDecreaseNoSkip ==
    /\ [](Len(blockLoop) <= 1)
    /\ [](stage # "started" => blockLoop = << >>)
    /\ [][ (blockLoop = << >> /\ blockLoop' # << >>) =>
             /\ blockLoop'[1].kind = "getBlock"
             /\ blockLoop'[1].blockNumber \in { rawStartBlock, Len(chain) - 1 } ]_vars
    /\ [][ (blockLoop # << >> /\ blockLoop' # blockLoop) =>
             /\ blockLoop' # << >>
             /\ blockLoop'[1].blockNumber \in
                   { blockLoop[1].blockNumber, blockLoop[1].blockNumber + 1 }
             /\ blockLoop'[1].blockNumber = blockLoop[1].blockNumber + 1 =>
                   /\ blockLoop[1].kind = "getBlock"
                   /\ answered' = [ blockNumber |-> blockLoop[1].blockNumber,
                                    result |-> "block" ]
                   /\ blockLoop[1].blockNumber < Len(chain) ]_vars

\* C11 witness: the loop, started at the head, has advanced over two blocks
C11_Witness ==
    /\ blockLoop # << >>
    /\ blockLoop[1].kind = "getBlock"
    /\ blockLoop[1].blockNumber = MaxBlocks
    /\ rawStartBlock = -1

\* C12 (as claimed): with MONITOR_START_<chainId> set to a number N >= 0 the first
\* block requested is N; with the variable unset it is the chain head
C12_StartsAtConfiguredBlock ==
    [][ (stage = "new" /\ stage' = "started") =>
          blockLoop' = << [ kind |-> "getBlock",
                            blockNumber |-> IF rawStartBlock >= 0 THEN rawStartBlock
                                            ELSE Len(chain) - 1 ] >> ]_vars

\* C13: with TESTING set the Monitor never starts: start fails, no ChainMonitor
\* runs, and no block or bytecode request is ever issued.
C13_TestingRefusesToStart ==
    /\ [](testing => /\ stage \in { "new", "failed" }
                     /\ blockLoop = << >>
                     /\ tasks = EmptyBag
                     /\ assemblies = EmptyBag
                     /\ injected = {})
    /\ [][ (testing /\ stage' # stage) => stage' = "failed" ]_vars
    /\ [][ stage = "failed" => stage' = "failed" ]_vars

\* C13 witness: the Monitor was constructed with TESTING set and start has thrown
C13_Witness ==
    /\ testing
    /\ stage = "failed"
    /\ Len(chain) = MaxBlocks

\* C14 (as claimed, for the older variant): every invocation of fetch schedules
\* exactly one further invocation, so exactly one loop step is pending at any time
C14_LoopNeverHalts == Len(timers) = 1

\* C15: every subscribed hash makes progress: from any state in which a hash is
\* subscribed, a state follows in which a request has been issued for its
\* Subscription (it is being processed) or the hash is no longer subscribed.
C15_EveryHashProgresses ==
    \A h \in Hashes :
        (h \in DOMAIN subscriptions) ~>
            (h \notin DOMAIN subscriptions \/ heap[subscriptions[h]].beingProcessed)

\* C15 witness: one hash waits for its turn while a request for another hash is in
\* flight and further subscriptions can still arrive
C15_Witness ==
    \E h1, h2 \in Hashes :
        /\ h1 # h2
        /\ h1 \in DOMAIN subscriptions
        /\ h2 \in DOMAIN subscriptions
        /\ heap[subscriptions[h1]].beingProcessed
        /\ ~ heap[subscriptions[h2]].beingProcessed
        /\ nextCb <= MaxCallbacks

\* the steps in which a request ends without a 200 body: nodeFetch rejects (error
\* or timeout), a response with another status arrives, or the body of a response
\* is dropped (another status, or the read failed)
Rejected(r) == r.phase = "pending" /\ requests' = Take(requests, r)
Refused(r) ==
    /\ r.phase = "pending"
    /\ \E status \in Statuses \ { OK } :
          requests' = Add(Take(requests, r),
                          [ r EXCEPT !.phase = "body", !.status = status,
                                     !.subscription = 0 ])
BodyDropped(r) ==
    /\ r.phase = "body"
    /\ requests' = Take(requests, r)
    /\ (r.status # OK \/ handled' = NoResponse)

\* C16: a request for H that ends with a non-200 response, an error or a timeout
\* invokes no callback and leaves the subscriptions, their subscriber lists and
\* fetch URLs and the timestamps as they were; the in-flight flag of the
\* Subscription it was sent for is cleared, and no other flag changes.
C16_FailureLeavesSubscription ==
    [][ \A r \in BagToSet(requests) :
          (Rejected(r) \/ Refused(r) \/ BodyDropped(r)) =>
              /\ calls' = calls
              /\ subscriptions' = subscriptions
              /\ keys' = keys
              /\ timestamps' = timestamps
              /\ dropped' = dropped
              /\ \A h \in DOMAIN subscriptions :
                    /\ heap'[subscriptions[h]].subscribers = heap[subscriptions[h]].subscribers
                    /\ heap'[subscriptions[h]].fetchUrl = heap[subscriptions[h]].fetchUrl
                    /\ heap'[subscriptions[h]].beingProcessed =
                          IF r.phase = "pending" /\ subscriptions[h] = r.subscription
                          THEN FALSE
                          ELSE heap[subscriptions[h]].beingProcessed ]_vars

\* C16 witness: a 404 has arrived for a hash that was in flight; its Subscription
\* is in place with the flag cleared and can be dispatched again
C16_Witness ==
    \E r \in BagToSet(requests) :
        /\ r.phase = "body"
        /\ r.status # OK
        /\ r.sourceHash \in DOMAIN subscriptions
        /\ ~ heap[subscriptions[r.sourceHash]].beingProcessed
        /\ timestamps[r.sourceHash] <= cleanupTime
        /\ Len(heap[subscriptions[r.sourceHash]].subscribers) = 2

\* the step notifies the subscribers of h: it handles a 200 body for h while h is
\* subscribed
Notified(h) ==
    /\ h \in DOMAIN subscriptions
    /\ handled'.id = h
    /\ handled'.file.status = OK

\* C17: a notification for H removes H's Subscription and timestamp before the
\* callbacks run.  Without a subscribe from a callback H is unsubscribed after it;
\* a callback that subscribes to H again finds no Subscription and creates a
\* fresh one, which after the notification holds only the callbacks registered
\* during it, none of them invoked, with a new timestamp and no request in flight.
C17_RemovedBeforeCallbacks ==
    [][ \A h \in Hashes :
          Notified(h) =>
              LET new == nextCb .. (nextCb' - 1)
                  old == heap[subscriptions[h]].subscribers
              IN  /\ handled'.invoked = old
                  /\ IF new = {}
                     THEN /\ h \notin DOMAIN subscriptions'
                          /\ h \notin DOMAIN timestamps'
                     ELSE /\ h \in DOMAIN subscriptions'
                          /\ subscriptions'[h] # subscriptions[h]
                          /\ subscriptions'[h] \notin DOMAIN heap
                          /\ Range(heap'[subscriptions'[h]].subscribers) = new
                          /\ new \cap Range(old) = {}
                          /\ ~ heap'[subscriptions'[h]].beingProcessed
                          /\ timestamps'[h] = 0
                          /\ \A cb \in new : calls'[cb] = << >> ]_vars

\* C17 witness: a notification has just run two callbacks, one of which subscribed
\* again: the fresh Subscription holds the new callback only
C17_Witness ==
    /\ handled.id \in DOMAIN subscriptions
    /\ Len(handled.invoked) = 2
    /\ Len(heap[subscriptions[handled.id]].subscribers) = 1
    /\ Range(heap[subscriptions[handled.id]].subscribers) \cap Range(handled.invoked) = {}

\* the step is a subscribe by a caller (not by a callback being notified) for h
Subscribed(h) ==
    /\ nextCb' = nextCb + 1
    /\ handled' = NoResponse
    /\ getUniqueIdentifier(owner'[nextCb]) = h

\* C18: subscribe for a hash that is subscribed appends the callback to its
\* Subscription and takes a new timestamp; the Subscription stays the same object
\* with the subscribers it had, its fetch URL and its in-flight flag, and nothing
\* else changes but the subscription counter.  A hash leaves the map by age only
\* when more than cleanupTime has passed since the last subscribe for it.
C18_ResubscribeRefreshes ==
    /\ [][ \A h \in DOMAIN subscriptions :
             Subscribed(h) =>
                 LET ref == subscriptions[h] IN
                 /\ subscriptions' = subscriptions
                 /\ keys' = keys
                 /\ heap' = [ heap EXCEPT ![ref].subscribers = Append(@, nextCb) ]
                 /\ timestamps' = [ timestamps EXCEPT ![h] = 0 ]
                 /\ fileCounter' = fileCounter
                 /\ subscriptionCounter' = subscriptionCounter + 1
                 /\ calls' = calls
                 /\ requests' = requests ]_vars
    /\ [][ \A h \in DOMAIN subscriptions :
             (h \notin DOMAIN subscriptions' /\ handled'.id # h) =>
                 /\ timestamps[h] > cleanupTime
                 /\ ~ heap[subscriptions[h]].beingProcessed ]_vars

\* C18 witness: a hash whose request is in flight has just been subscribed again
C18_Witness ==
    \E h \in DOMAIN subscriptions :
        /\ Len(heap[subscriptions[h]].subscribers) = 3
        /\ heap[subscriptions[h]].beingProcessed
        /\ timestamps[h] = 0
        /\ handled = NoResponse

\* callbacks are numbered as they are registered: s lists callbacks in the order
\* in which they were subscribed
InSubscriptionOrder(s) == \A i, j \in DOMAIN s : i < j => s[i] < s[j]

\* C19: the callbacks of one successful fetch of H run in the order in which they
\* were subscribed: every Subscription lists its subscribers in that order, and a
\* notification invokes those of H's Subscription one after the other in it.
C19_NotifiedInSubscriptionOrder ==
    /\ [](\A ref \in DOMAIN heap : InSubscriptionOrder(heap[ref].subscribers))
    /\ [][ \A h \in Hashes :
             Notified(h) =>
                 /\ InSubscriptionOrder(handled'.invoked)
                 /\ Range(handled'.invoked) = Range(heap[subscriptions[h]].subscribers)
                 /\ \A cb \in Range(handled'.invoked) :
                       getUniqueIdentifier(owner[cb]) = h ]_vars

\* C19 witness: a notification has run three callbacks of one hash
C19_Witness ==
    /\ Len(handled.invoked) = 3
    /\ handled.file.status = OK

\* C20 (as claimed, for the older variant): a subscribe for an address whose
\* origin no gateway serves is rejected and leaves the fetcher unchanged: no
\* callback is registered and no Subscription or timestamp exists for such an address
C20_UnservedOriginRejected ==
    /\ \A cb \in DOMAIN owner : findGateway_old(owner[cb]) # 0
    /\ \A h \in DOMAIN subscriptions \cup DOMAIN timestamps :
          \E sa \in SourceAddresses_old :
              getUniqueIdentifier(sa) = h /\ findGateway_old(sa) # 0

\* the step handles an eth_getCode answer for the pending request t
CodeAnswered(t) ==
    /\ t.phase = "getCode"
    /\ answered'.result \in Bytecodes
    /\ CopiesIn(t, tasks') < CopiesIn(t, tasks)

\* C21: an assembly is started only by an eth_getCode answer with code, once for
\* the request answered, which then ends; inject is called only when an assembly
\* completes, with the bytecode of that answer, the monitor's chain id and the
\* one address; an answer whose tail cannot be decoded, or for which assemble
\* throws, ends the scheduling: no retry, no assembly, no injection.
C21_AssembleOnceThenInject ==
    /\ [][ \A t \in BagToSet(tasks) :
             CodeAnswered(t) =>
                 /\ injected' = injected
                 /\ CASE answered'.result = "0x" ->
                           /\ tasks' = Add(Take(tasks, t), [ t EXCEPT !.phase = "timer" ])
                           /\ assemblies' = assemblies
                      [] answered'.result = "0xcode" ->
                           /\ tasks' = Take(tasks, t)
                           /\ assemblies' = Add(assemblies,
                                                [ address |-> t.address,
                                                  bytecode |-> answered'.result ])
                      [] OTHER ->
                           /\ tasks' = Take(tasks, t)
                           /\ assemblies' = assemblies ]_vars
    /\ [][ assemblies' # assemblies =>
             \/ /\ answered'.result = "0xcode"
                /\ BagCardinality(assemblies') = BagCardinality(assemblies) + 1
             \/ /\ answered' = NoAnswer
                /\ tasks' = tasks
                /\ \E a \in BagToSet(assemblies) :
                      /\ assemblies' = Take(assemblies, a)
                      /\ \/ injected' = injected
                         \/ injected' = injected \cup
                               { [ bytecode |-> a.bytecode, chain |-> chainId,
                                   addresses |-> << a.address >> ] } ]_vars
    /\ [][ injected' # injected => assemblies' # assemblies ]_vars
    /\ [](\A x \in injected : x.bytecode = "0xcode" /\ x.chain = chainId
                              /\ Len(x.addresses) = 1)

\* C21 witness: an address was injected after its assembly, and the answer just
\* handled for another request could not be decoded
C21_Witness ==
    /\ injected # {}
    /\ answered.result = "0xbadcbor"

\* C22 (as claimed): every creation transaction is handed to processBytecode
\* exactly once, so no address is ever under two schedulings at once
C22_HandedExactlyOnce ==
    \A t \in BagToSet(tasks) :
        /\ CopiesIn(t, tasks) = 1
        /\ \A u \in BagToSet(tasks) : u.address = t.address => u = t

\* C23: once started the block loop has exactly one outstanding step, a getBlock
\* request or a timer of getBlockPause; every answer (block, no block, failure)
\* leaves exactly one timer, every timer one request; the bytecode steps neither
\* change the loop step nor stand in its way.
C23_OneLoopStep ==
    /\ [](stage = "started" =>
            /\ Len(blockLoop) = 1
            /\ blockLoop[1].kind \in { "getBlock", "timer" }
            /\ blockLoop[1].kind = "timer" => blockLoop[1].delay = getBlockPause)
    /\ [][ answered'.result \in { "block", "null", "error" } =>
             /\ blockLoop[1].kind = "getBlock"
             /\ blockLoop'[1].kind = "timer" ]_vars
    /\ [][ (blockLoop # << >> /\ blockLoop[1].kind = "timer" /\ blockLoop' # blockLoop) =>
             blockLoop'[1].kind = "getBlock" ]_vars
    /\ [][ (tasks' # tasks /\ answered'.result # "block") => blockLoop' = blockLoop ]_vars
    /\ [][ assemblies' # assemblies => blockLoop' = blockLoop ]_vars

\* C23 witness: a request for a block has just failed while a bytecode retry is
\* pending, and the loop's next timer is set
C23_Witness ==
    /\ answered.result = "error"
    /\ \E t \in BagToSet(tasks) : t.phase = "timer"
    /\ blockLoop[1].kind = "timer"


(***************************************************************************)
(* The maps and the counters of the SourceFetcher.                         *)
(***************************************************************************)
\* C24: in both variants, in every reachable state the timestamp map and the
\* subscription map have the same keys, and every Subscription in the map
\* holds at least one callback.
C24_SameKeysNoEmptySubscription ==
    /\ DOMAIN timestamps = DOMAIN subscriptions
    /\ \A h \in DOMAIN subscriptions : heap[subscriptions[h]].subscribers # << >>

\* the current fetcher has removed a subscription by age, has notified the
\* subscribers of another, and a callback it ran has subscribed its hash again
C24_Witness ==
    /\ variant = "current"
    /\ dropped # {}
    /\ handled.invoked # << >>
    /\ handled.id \in DOMAIN subscriptions

\* the callbacks the Subscriptions of the map hold, each with its place
Held ==
    UNION { { << h, i >> : i \in DOMAIN heap[subscriptions[h]].subscribers } :
            h \in DOMAIN subscriptions }

\* C25: the current fetcher's fileCounter is the number of Subscriptions in the
\* map and its subscriptionCounter the number of callbacks they hold in all,
\* after any subscribe, age cleanup and notification; neither is negative.
C25_CountersMatch ==
    /\ fileCounter = Cardinality(DOMAIN subscriptions)
    /\ subscriptionCounter = Cardinality(Held)
    /\ fileCounter >= 0
    /\ subscriptionCounter >= 0

\* a Subscription with two callbacks was removed by age cleanup and another
\* Subscription is in the map
C25_Witness ==
    /\ \E a, b \in dropped : a # b /\ owner[a] = owner[b]
    /\ fileCounter = 1
    /\ subscriptionCounter = 1
====
